---- MODULE Spec2Model ----
(***************************************************************************)
(* Model of the cashFlow repository: the aggregate financial statement of  *)
(* cashflow_app/models.py (IncomeStatement, BalanceSheet,                  *)
(* FinancialStatement) and the CLI statement of financial_statement.py.    *)
(*                                                                         *)
(* Python values.  An amount stored in a dict is either None or a number.  *)
(* None is the empty sequence and the number n is <<n>>, so that both are  *)
(* comparable.  Amounts are whole numbers: on them float() and int         *)
(* arithmetic agree exactly, so a float result is modelled by its value.   *)
(* The result of evaluating a Python expression is a record                *)
(* [raised, value]: raised is TRUE when the evaluation ends in an          *)
(* exception (TypeError, KeyError).                                        *)
(*                                                                         *)
(* A dict is the sequence of its <<key, value>> items in insertion order,  *)
(* with no key twice.                                                      *)
(*                                                                         *)
(* The shells: the form of cashflow_app/app.py and the menu of main.py.    *)
(* A text (str) is the sequence of its characters.  float() and int() are  *)
(* modelled on plain decimal literals (blanks, a sign, digits, one point); *)
(* exponents, underscores, inf and nan are not part of the model.  The     *)
(* amounts the form parses are fixed-point numbers counted in hundredths,  *)
(* which is exact for texts with at most two decimals.                     *)
(***************************************************************************)
EXTENDS Integers, Sequences, FiniteSets, TLC

\* ---------------------------------------------------------------- bounds
MaxCalls == 3
MaxAmount == 1
MaxChildren == 2

\* ------------------------------------------------------- Python values
None == <<>>

Num(n) == <<n>>

Ok(n) == [raised |-> FALSE, value |-> n]

Raise == [raised |-> TRUE, value |-> 0]

\* the `or 0` left out
Or0_absent(v) == v

\* `v or 0`: a falsy v (None, 0) gives 0, any other v gives v
Or0(v) == IF v = None \/ v = Num(0) THEN Num(0) ELSE v

\* float(v): TypeError on None
PyFloat(v) == IF v = None THEN Raise ELSE Ok(v[1])

\* an operand of int addition, as in 0 + v: TypeError on None
PyOperand(v) == IF v = None THEN Raise ELSE Ok(v[1])

\* a - b on two evaluated operands; an exception in either propagates
PySub(a, b) == IF a.raised \/ b.raised THEN Raise ELSE Ok(a.value - b.value)

RECURSIVE PySumFrom(_, _, _)
PySumFrom(terms, i, acc) ==
    IF i > Len(terms) THEN Ok(acc)
    ELSE IF terms[i].raised THEN Raise
    ELSE PySumFrom(terms, i + 1, acc + terms[i].value)

\* sum(iterable): left fold from 0 over the evaluated terms
PySum(terms) == PySumFrom(terms, 1, 0)

\* the number an amount stands for in a sum, None counting as 0
NumOrZero(v) == IF v = None THEN 0 ELSE v[1]

\* ---------------------------------------------------------------- str
DigitChars == <<"0", "1", "2", "3", "4", "5", "6", "7", "8", "9">>

IsDigit(ch) == \E i \in 1..10 : DigitChars[i] = ch

DigitValue(ch) == (CHOOSE i \in 1..10 : DigitChars[i] = ch) - 1

\* text.replace(old, new) for single characters
StrReplace(text, old, new) ==
    [i \in 1..Len(text) |-> IF text[i] = old THEN new ELSE text[i]]

RECURSIVE LStrip(_)
LStrip(text) ==
    IF text # <<>> /\ Head(text) = " " THEN LStrip(Tail(text)) ELSE text

RECURSIVE RStrip(_)
RStrip(text) ==
    IF text # <<>> /\ text[Len(text)] = " "
    THEN RStrip(SubSeq(text, 1, Len(text) - 1))
    ELSE text

\* text.strip(), which int() and float() apply to their argument
Strip(text) == RStrip(LStrip(text))

RECURSIVE DigitsValue(_)
\* the number written by a sequence of digits, 0 for none
DigitsValue(ds) ==
    IF ds = <<>> THEN 0
    ELSE 10 * DigitsValue(SubSeq(ds, 1, Len(ds) - 1)) + DigitValue(ds[Len(ds)])

AllDigits(ds) == \A i \in 1..Len(ds) : IsDigit(ds[i])

Signed(text) == text # <<>> /\ Head(text) \in {"+", "-"}

Unsigned(text) == IF Signed(text) THEN Tail(text) ELSE text

SignOf(text) == IF text # <<>> /\ Head(text) = "-" THEN -1 ELSE 1

\* int(text): ValueError unless blanks, an optional sign and digits
PyIntText(text) ==
    LET body == Unsigned(Strip(text))
    IN IF body # <<>> /\ AllDigits(body)
       THEN Ok(SignOf(Strip(text)) * DigitsValue(body))
       ELSE Raise

\* float(text) in hundredths: ValueError unless blanks, an optional sign,
\* digits and at most one point, with a digit on one side of it at least
PyFloatText(text) ==
    LET body == Unsigned(Strip(text))
        points == {i \in 1..Len(body) : body[i] = "."}
        point == IF points = {} THEN Len(body) + 1
                 ELSE CHOOSE i \in points : TRUE
        whole == SubSeq(body, 1, point - 1)
        frac == SubSeq(body, point + 1, Len(body))
        cents == SubSeq(frac \o <<"0", "0">>, 1, 2)
    IN IF /\ Cardinality(points) <= 1
          /\ AllDigits(whole) /\ AllDigits(frac)
          /\ Len(whole) + Len(frac) > 0
       THEN Ok(SignOf(Strip(text)) * (100 * DigitsValue(whole) + DigitsValue(cents)))
       ELSE Raise

RECURSIVE NatDigits(_)
\* the decimal digits of a natural number
NatDigits(n) ==
    IF n < 10 THEN <<DigitChars[n + 1]>>
    ELSE NatDigits(n \div 10) \o <<DigitChars[(n % 10) + 1]>>

RECURSIVE Grouped(_)
\* the ',' option of a format: a comma before every three digits
Grouped(ds) ==
    IF Len(ds) <= 3 THEN ds
    ELSE Grouped(SubSeq(ds, 1, Len(ds) - 3)) \o <<",">>
           \o SubSeq(ds, Len(ds) - 2, Len(ds))

\* f"{number:,.2f}" for a number given in hundredths
Format2f(number) ==
    LET abs == IF number < 0 THEN -number ELSE number
        cents == abs % 100
    IN (IF number < 0 THEN <<"-">> ELSE <<>>)
         \o Grouped(NatDigits(abs \div 100)) \o <<".">>
         \o <<DigitChars[(cents \div 10) + 1], DigitChars[(cents % 10) + 1]>>

\* ---------------------------------------------------------------- dicts
EmptyDict == <<>>

DictKeys(d) == {d[i][1] : i \in 1..Len(d)}

DictHas(d, k) == k \in DictKeys(d)

DictIndex(d, k) == CHOOSE i \in 1..Len(d) : d[i][1] = k

\* d[k]
DictItem(d, k) == d[DictIndex(d, k)][2]

\* d.get(k, default)
DictGet(d, k, default) == IF DictHas(d, k) THEN DictItem(d, k) ELSE default

\* d[k] = v: an existing key keeps its place, a new key is appended
DictSet(d, k, v) ==
    IF DictHas(d, k)
    THEN [d EXCEPT ![DictIndex(d, k)] = <<k, v>>]
    ELSE Append(d, <<k, v>>)

\* d.pop(k, None): the dict after the call
DictPop(d, k) == SelectSeq(d, LAMBDA item : item[1] # k)

\* list(d.values())
DictValues(d) == [i \in 1..Len(d) |-> d[i][2]]

\* -------------------------------------------- cashflow_app/models.py
PassiveCategories ==
    {"interest_dividends", "real_estate_income", "business_income",
     "other_passive_income"}

\* a fold without a start value: fails on an empty dict
_safe_sum_no_start(values) ==
    IF Len(values) = 0 THEN Raise
    ELSE PySum([i \in 1..Len(values) |-> PyFloat(Or0(DictValues(values)[i]))])

_safe_sum(values) ==
    PySum([i \in 1..Len(values) |-> PyFloat(Or0(DictValues(values)[i]))])

\* a statement pre-filled with the form's first income field
NewIncomeStatement_prefilled ==
    [incomes |-> <<<<"salary", Num(0)>>>>, expenses |-> EmptyDict,
     passive_categories |-> PassiveCategories]

NewIncomeStatement ==
    [incomes |-> EmptyDict, expenses |-> EmptyDict,
     passive_categories |-> PassiveCategories]

total_income(self) == _safe_sum(self.incomes)

total_expenses(self) == _safe_sum(self.expenses)

\* the passive_categories set in some iteration order
RECURSIVE SetToSeq(_)
SetToSeq(S) ==
    IF S = {} THEN <<>>
    ELSE LET k == CHOOSE x \in S : TRUE IN <<k>> \o SetToSeq(S \ {k})

\* sums every income category, passive or not
passive_income_all(self) == _safe_sum(self.incomes)

passive_income(self) ==
    LET keys == SetToSeq(self.passive_categories)
    IN PySum([i \in 1..Len(keys) |->
                 PyFloat(Or0(DictGet(self.incomes, keys[i], Num(0))))])

\* a cash flow that is never reported below zero
cash_flow_clamped(self) ==
    LET r == PySub(total_income(self), total_expenses(self))
    IN IF ~r.raised /\ r.value < 0 THEN Ok(0) ELSE r

cash_flow(self) == PySub(total_income(self), total_expenses(self))

NewBalanceSheet == [assets |-> EmptyDict, liabilities |-> EmptyDict]

total_assets(self) == _safe_sum(self.assets)

total_liabilities(self) == _safe_sum(self.liabilities)

\* operands exchanged
net_worth_swapped(self) == PySub(total_liabilities(self), total_assets(self))

net_worth(self) == PySub(total_assets(self), total_liabilities(self))

NewFinancialStatement ==
    [income_statement |-> NewIncomeStatement, balance_sheet |-> NewBalanceSheet]

\* adds the new amount to the one already stored
update_income_accumulate(self, category, value) ==
    [self EXCEPT !.income_statement.incomes =
        DictSet(@, category,
                Num(NumOrZero(DictGet(@, category, None)) + NumOrZero(value)))]

update_income(self, category, value) ==
    [self EXCEPT !.income_statement.incomes = DictSet(@, category, value)]

update_expense(self, category, value) ==
    [self EXCEPT !.income_statement.expenses = DictSet(@, category, value)]

update_asset(self, category, value) ==
    [self EXCEPT !.balance_sheet.assets = DictSet(@, category, value)]

\* writes the liability into the expenses of the same name
update_liability_in_expenses(self, category, value) ==
    [self EXCEPT !.income_statement.expenses = DictSet(@, category, value)]

update_liability(self, category, value) ==
    [self EXCEPT !.balance_sheet.liabilities = DictSet(@, category, value)]

\* the read-only properties of FinancialStatement
FS_total_income(self) == total_income(self.income_statement)

FS_total_expenses(self) == total_expenses(self.income_statement)

FS_passive_income(self) == passive_income(self.income_statement)

FS_cash_flow(self) == cash_flow(self.income_statement)

FS_total_assets(self) == total_assets(self.balance_sheet)

FS_total_liabilities(self) == total_liabilities(self.balance_sheet)

FS_net_worth(self) == net_worth(self.balance_sheet)

\* ----------------------------------------------- cashflow_app/app.py
\* the text of a summary label before the first update_summary
InitialLabel == <<"0">>

LabelNames ==
    {"total_income", "passive_income", "total_expenses", "cash_flow",
     "total_assets", "total_liabilities", "net_worth"}

_parse_value(value) ==
    LET cleaned == IF value # <<>> THEN StrReplace(value, ",", ".") ELSE <<"0">>
        parsed == PyFloatText(cleaned)
    IN IF parsed.raised THEN 0 ELSE parsed.value

fmt(number) == StrReplace(StrReplace(Format2f(number), ",", " "), ".", ",")

\* leaves the net worth label as it was
update_summary_stale(self) ==
    [self EXCEPT !.labels =
        [total_income |-> fmt(FS_total_income(self.statement).value),
         passive_income |-> fmt(FS_passive_income(self.statement).value),
         total_expenses |-> fmt(FS_total_expenses(self.statement).value),
         cash_flow |-> fmt(FS_cash_flow(self.statement).value),
         total_assets |-> fmt(FS_total_assets(self.statement).value),
         total_liabilities |-> fmt(FS_total_liabilities(self.statement).value),
         net_worth |-> self.labels.net_worth]]

update_summary(self) ==
    [self EXCEPT !.labels =
        [total_income |-> fmt(FS_total_income(self.statement).value),
         passive_income |-> fmt(FS_passive_income(self.statement).value),
         total_expenses |-> fmt(FS_total_expenses(self.statement).value),
         cash_flow |-> fmt(FS_cash_flow(self.statement).value),
         total_assets |-> fmt(FS_total_assets(self.statement).value),
         total_liabilities |-> fmt(FS_total_liabilities(self.statement).value),
         net_worth |-> fmt(FS_net_worth(self.statement).value)]]

\* CashflowApp(): a new statement, every label created as "0", then
\* update_summary
NewCashflowApp ==
    update_summary([statement |-> NewFinancialStatement,
                    labels |-> [l \in LabelNames |-> InitialLabel]])

on_income_change(self, key, text) ==
    update_summary([self EXCEPT
        !.statement = update_income(@, key, Num(_parse_value(text)))])

on_expense_change(self, key, text) ==
    update_summary([self EXCEPT
        !.statement = update_expense(@, key, Num(_parse_value(text)))])

on_asset_change(self, key, text) ==
    update_summary([self EXCEPT
        !.statement = update_asset(@, key, Num(_parse_value(text)))])

on_liability_change(self, key, text) ==
    update_summary([self EXCEPT
        !.statement = update_liability(@, key, Num(_parse_value(text)))])

\* ------------------------------------------------ financial_statement.py
\* the key 'Расходы на детей' of the CLI statement, transliterated
CHILD_KEY == "Raskhody na detej"

CHILD_EXPENSE == 100

NewCliFinancialStatement ==
    [CHILD_EXPENSE |-> CHILD_EXPENSE,
     incomes |-> EmptyDict,
     expenses |-> <<<<CHILD_KEY, Num(0)>>>>,
     assets |-> EmptyDict,
     liabilities |-> EmptyDict,
     children |-> 0]

\* the outcome of a method call: the object after it, and whether it raised
Returns(self) == [self |-> self, raised |-> FALSE]

add_income(self, name, amount) ==
    Returns([self EXCEPT !.incomes = DictSet(@, name, amount)])

\* the existence check left out
edit_income_unguarded(self, name, amount) ==
    Returns([self EXCEPT !.incomes = DictSet(@, name, amount)])

edit_income(self, name, amount) ==
    IF DictHas(self.incomes, name)
    THEN Returns([self EXCEPT !.incomes = DictSet(@, name, amount)])
    ELSE Returns(self)

remove_income(self, name) ==
    Returns([self EXCEPT !.incomes = DictPop(@, name)])

add_expense(self, name, amount) ==
    Returns([self EXCEPT !.expenses = DictSet(@, name, amount)])

edit_expense(self, name, amount) ==
    IF DictHas(self.expenses, name)
    THEN Returns([self EXCEPT !.expenses = DictSet(@, name, amount)])
    ELSE Returns(self)

remove_expense(self, name) ==
    Returns([self EXCEPT !.expenses = DictPop(@, name)])

\* adds the children's cost to what the category already holds
set_children_increment(self, number) ==
    Returns([self EXCEPT
                !.children = number,
                !.expenses = DictSet(@, CHILD_KEY,
                    Num(NumOrZero(DictGet(@, CHILD_KEY, None))
                        + self.CHILD_EXPENSE * number))])

set_children(self, number) ==
    Returns([self EXCEPT
                !.children = number,
                !.expenses = DictSet(@, CHILD_KEY,
                                     Num(self.CHILD_EXPENSE * number))])

\* sum(d.values()) on stored amounts: 0 + v for each v
PySumValues(d) == PySum([i \in 1..Len(d) |-> PyOperand(DictValues(d)[i])])

Cli_cash_flow(self) == PySub(PySumValues(self.incomes), PySumValues(self.expenses))

\* ------------------------------------------------------------ inputs
\* category names the callers pass, from the form's four ledgers: an active
\* and two passive income categories; 'mortgage' names both an expense and
\* a liability
IncomeCategories == {"salary", "interest_dividends", "business_income"}

ExpenseCategories == {"taxes", "mortgage"}

AssetCategories == {"savings"}

LiabilityCategories == {"mortgage", "car_loan"}

Amounts == {None} \cup {Num(n) : n \in -1..MaxAmount}

\* names typed at the CLI prompts: an income, an expense, the child key
Names == {"Zarplata", "Arenda", CHILD_KEY}

Children == 0..MaxChildren

\* texts typed into a form field or at a prompt: nothing, a letter, a
\* number, a negative number with a decimal comma
Texts ==
    {<<>>, <<"x">>, <<"1", "0", "0", "0">>, <<"-", "1", ",", "5">>}

\* ------------------------------------------------------------- state
VARIABLES
    statement,      \* the aggregate FinancialStatement (cashflow_app.models)
    fs,             \* the CLI FinancialStatement (financial_statement)
    calls,          \* number of mutating calls made so far
    last_call,      \* the most recent call of a CLI statement method
    written_income, \* history: category -> amount last passed to update_income
    labels,         \* the form: text of each summary label
    session,        \* the menu loop: "running", "exited" or the exception that ended it
    last_input      \* the most recent text a shell read, and for which field or prompt

shell == <<labels, session, last_input>>

vars == <<statement, fs, calls, last_call, written_income,
          labels, session, last_input>>

Input(sh, op, key, text) == [shell |-> sh, op |-> op, key |-> key, text |-> text]

Call(op, name, amount, raised) ==
    [op |-> op, name |-> name, amount |-> amount, raised |-> raised]

Init ==
    /\ statement = NewFinancialStatement
    /\ fs = NewCliFinancialStatement
    /\ calls = 0
    /\ last_call = Call("__init__", "", None, FALSE)
    /\ written_income = <<>>
    /\ labels = NewCashflowApp.labels
    /\ session = "running"
    /\ last_input = Input("", "", "", <<>>)

Written(hist, category, value) ==
    [c \in DOMAIN hist \cup {category} |->
        IF c = category THEN value ELSE hist[c]]

UpdateIncome ==
    \E category \in IncomeCategories, value \in Amounts :
        /\ calls < MaxCalls
        /\ statement' = update_income(statement, category, value)
        /\ calls' = calls + 1
        /\ written_income' = Written(written_income, category, value)
        /\ UNCHANGED <<fs, last_call, shell>>

UpdateExpense ==
    \E category \in ExpenseCategories, value \in Amounts :
        /\ calls < MaxCalls
        /\ statement' = update_expense(statement, category, value)
        /\ calls' = calls + 1
        /\ UNCHANGED <<fs, last_call, written_income, shell>>

UpdateAsset ==
    \E category \in AssetCategories, value \in Amounts :
        /\ calls < MaxCalls
        /\ statement' = update_asset(statement, category, value)
        /\ calls' = calls + 1
        /\ UNCHANGED <<fs, last_call, written_income, shell>>

UpdateLiability ==
    \E category \in LiabilityCategories, value \in Amounts :
        /\ calls < MaxCalls
        /\ statement' = update_liability(statement, category, value)
        /\ calls' = calls + 1
        /\ UNCHANGED <<fs, last_call, written_income, shell>>

Next == UpdateIncome \/ UpdateExpense \/ UpdateAsset \/ UpdateLiability

Spec == Init /\ [][Next]_vars

\* one call of a CLI statement method
CliCall(op, name, amount, out) ==
    /\ calls < MaxCalls
    /\ fs' = out.self
    /\ calls' = calls + 1
    /\ last_call' = Call(op, name, amount, out.raised)
    /\ UNCHANGED <<statement, written_income, shell>>

AddIncome ==
    \E name \in Names, amount \in Amounts :
        CliCall("add_income", name, amount, add_income(fs, name, amount))

EditIncome ==
    \E name \in Names, amount \in Amounts :
        CliCall("edit_income", name, amount, edit_income(fs, name, amount))

RemoveIncome ==
    \E name \in Names :
        CliCall("remove_income", name, None, remove_income(fs, name))

AddExpense ==
    \E name \in Names, amount \in Amounts :
        CliCall("add_expense", name, amount, add_expense(fs, name, amount))

EditExpense ==
    \E name \in Names, amount \in Amounts :
        CliCall("edit_expense", name, amount, edit_expense(fs, name, amount))

RemoveExpense ==
    \E name \in Names :
        CliCall("remove_expense", name, None, remove_expense(fs, name))

SetChildren ==
    \E number \in Children :
        CliCall("set_children", "", Num(number), set_children(fs, number))

NextCli ==
    \/ AddIncome \/ EditIncome \/ RemoveIncome
    \/ AddExpense \/ EditExpense \/ RemoveExpense
    \/ SetChildren

SpecCli == Init /\ [][NextCli]_vars

\* ------------------------------------------------- the form (app.py)
App == [statement |-> statement, labels |-> labels]

\* a write of text to the StringVar of a field runs its trace callback,
\* which reads the text back with var.get(), to the end
FieldEdit(ledger, key, text, app) ==
    /\ calls < MaxCalls
    /\ statement' = app.statement
    /\ labels' = app.labels
    /\ calls' = calls + 1
    /\ last_input' = Input("form", ledger, key, text)
    /\ UNCHANGED <<fs, last_call, session>>

OnIncomeChange ==
    \E key \in IncomeCategories, text \in Texts :
        /\ FieldEdit("income", key, text, on_income_change(App, key, text))
        /\ written_income' = Written(written_income, key, Num(_parse_value(text)))

OnExpenseChange ==
    \E key \in ExpenseCategories, text \in Texts :
        /\ FieldEdit("expense", key, text, on_expense_change(App, key, text))
        /\ UNCHANGED written_income

OnAssetChange ==
    \E key \in AssetCategories, text \in Texts :
        /\ FieldEdit("asset", key, text, on_asset_change(App, key, text))
        /\ UNCHANGED written_income

OnLiabilityChange ==
    \E key \in LiabilityCategories, text \in Texts :
        /\ FieldEdit("liability", key, text, on_liability_change(App, key, text))
        /\ UNCHANGED written_income

NextGui == OnIncomeChange \/ OnExpenseChange \/ OnAssetChange \/ OnLiabilityChange

SpecGui == Init /\ [][NextGui]_vars

\* ------------------------------------------------ the menu (main.py)
\* one turn of the loop of main() that reads an amount with int(input()):
\* a ValueError is not caught and ends the program
MenuAmount(choice, name, text, op, out) ==
    /\ session = "running"
    /\ calls < MaxCalls
    /\ calls' = calls + 1
    /\ last_input' = Input("menu", choice, name, text)
    /\ IF PyIntText(text).raised
       THEN /\ session' = "ValueError"
            /\ UNCHANGED <<fs, last_call>>
       ELSE /\ fs' = out.self
            /\ last_call' = Call(op, name, Num(PyIntText(text).value), out.raised)
            /\ UNCHANGED session
    /\ UNCHANGED <<statement, written_income, labels>>

\* one turn of the loop that reads no amount
MenuPlain(choice, name, op, self, after) ==
    /\ session = "running"
    /\ calls < MaxCalls
    /\ calls' = calls + 1
    /\ last_input' = Input("menu", choice, name, <<>>)
    /\ fs' = self
    /\ last_call' = IF op = "" THEN last_call ELSE Call(op, name, None, FALSE)
    /\ session' = after
    /\ UNCHANGED <<statement, written_income, labels>>

IntOf(text) == PyIntText(text).value

Menu1 ==
    \E name \in Names, text \in Texts :
        MenuAmount("1", name, text, "add_income",
                   add_income(fs, name, Num(IntOf(text))))

Menu2 ==
    \E name \in Names, text \in Texts :
        MenuAmount("2", name, text, "edit_income",
                   edit_income(fs, name, Num(IntOf(text))))

Menu3 ==
    \E name \in Names :
        MenuPlain("3", name, "remove_income", remove_income(fs, name).self,
                  "running")

Menu4 ==
    \E name \in Names, text \in Texts :
        MenuAmount("4", name, text, "add_expense",
                   add_expense(fs, name, Num(IntOf(text))))

Menu5 ==
    \E name \in Names, text \in Texts :
        MenuAmount("5", name, text, "edit_expense",
                   edit_expense(fs, name, Num(IntOf(text))))

Menu6 ==
    \E name \in Names :
        MenuPlain("6", name, "remove_expense", remove_expense(fs, name).self,
                  "running")

Menu7 ==
    \E text \in Texts :
        MenuAmount("7", "", text, "set_children", set_children(fs, IntOf(text)))

\* the report: prints the two mappings and cash_flow()
Menu8 ==
    MenuPlain("8", "", "", fs,
              IF Cli_cash_flow(fs).raised THEN "TypeError" ELSE "running")

Menu9 == MenuPlain("9", "", "", fs, "exited")

\* any other choice prints a message
MenuOther == MenuPlain("0", "", "", fs, "running")

NextMenu ==
    \/ Menu1 \/ Menu2 \/ Menu3 \/ Menu4 \/ Menu5 \/ Menu6 \/ Menu7
    \/ Menu8 \/ Menu9 \/ MenuOther

SpecMenu == Init /\ [][NextMenu]_vars

\* ------------------------------------------------------------ claims
RECURSIVE SumOver(_, _)
\* the sum of NumOrZero(f[c]) over the categories c of S
SumOver(S, f) ==
    IF S = {} THEN 0
    ELSE LET c == CHOOSE x \in S : TRUE
         IN NumOrZero(f[c]) + SumOver(S \ {c}, f)

\* the current contents of a dict as a function from its keys
Contents(d) == [k \in DictKeys(d) |-> DictItem(d, k)]

Reversed(d) == [i \in 1..Len(d) |-> d[Len(d) + 1 - i]]

HasNone(d) == \E i \in 1..Len(d) : d[i][2] = None

\* a dict with every None amount replaced by 0
ZeroNulls(d) ==
    [i \in 1..Len(d) |-> <<d[i][1], IF d[i][2] = None THEN Num(0) ELSE d[i][2]>>]

ZeroNullsStatement(st) ==
    [st EXCEPT !.income_statement.incomes = ZeroNulls(@),
               !.income_statement.expenses = ZeroNulls(@),
               !.balance_sheet.assets = ZeroNulls(@),
               !.balance_sheet.liabilities = ZeroNulls(@)]

Aggregates(st) ==
    <<FS_total_income(st), FS_total_expenses(st), FS_passive_income(st),
      FS_cash_flow(st), FS_total_assets(st), FS_total_liabilities(st),
      FS_net_worth(st)>>

\* C1: in every state reached by update_* calls, cash_flow is computed and
\* equals total_income minus total_expenses, negative results included.
C1_CashFlow ==
    LET ti == FS_total_income(statement)
        te == FS_total_expenses(statement)
    IN /\ ~ti.raised /\ ~te.raised
       /\ FS_cash_flow(statement) = Ok(ti.value - te.value)

C1_Witness ==
    /\ statement.income_statement.incomes # EmptyDict
    /\ statement.income_statement.expenses # EmptyDict
    /\ FS_total_income(statement).value > 0
    /\ FS_cash_flow(statement) = Ok(-1)

\* C2: in every state reached by update_* calls, net_worth is computed and
\* equals total_assets minus total_liabilities.
C2_NetWorth ==
    LET ta == FS_total_assets(statement)
        tl == FS_total_liabilities(statement)
    IN /\ ~ta.raised /\ ~tl.raised
       /\ FS_net_worth(statement) = Ok(ta.value - tl.value)

C2_Witness ==
    /\ statement.balance_sheet.assets # EmptyDict
    /\ statement.balance_sheet.liabilities # EmptyDict
    /\ FS_total_assets(statement).value # FS_total_liabilities(statement).value
    /\ FS_net_worth(statement).value < 0

\* C3: total_income is the sum, over the categories written by
\* update_income, of the amount last written to each (a None amount
\* counting as 0); the incomes dict holds exactly those last amounts.
C3_LastWriteWins ==
    /\ Contents(statement.income_statement.incomes) = written_income
    /\ FS_total_income(statement)
          = Ok(SumOver(DOMAIN written_income, written_income))

\* three update_income calls on two categories: one of them was overwritten
C3_Witness ==
    /\ calls = 3
    /\ statement.income_statement.expenses = EmptyDict
    /\ statement.balance_sheet = NewBalanceSheet
    /\ Len(statement.income_statement.incomes) = 2
    /\ FS_total_income(statement).value # 0

\* C4: passive_income is the sum of the current amounts of exactly the
\* income categories of the passive set that are present, and is the same
\* for the incomes written in the opposite order.
C4_PassiveIncome ==
    LET incomes == statement.income_statement.incomes
        present == DictKeys(incomes) \cap PassiveCategories
    IN /\ FS_passive_income(statement) = Ok(SumOver(present, Contents(incomes)))
       /\ passive_income([statement.income_statement EXCEPT
                             !.incomes = Reversed(incomes)])
             = FS_passive_income(statement)

\* salary and a passive category both hold a non-zero amount, a passive
\* category is absent
C4_Witness ==
    LET incomes == statement.income_statement.incomes
    IN /\ DictHas(incomes, "salary")
       /\ NumOrZero(DictItem(incomes, "salary")) # 0
       /\ DictHas(incomes, "interest_dividends")
       /\ ~DictHas(incomes, "business_income")
       /\ incomes[1][1] = "interest_dividends"
       /\ FS_passive_income(statement).value # 0
       /\ FS_passive_income(statement) # FS_total_income(statement)

AnyNone(st) ==
    \/ HasNone(st.income_statement.incomes)
    \/ HasNone(st.income_statement.expenses)
    \/ HasNone(st.balance_sheet.assets)
    \/ HasNone(st.balance_sheet.liabilities)

\* C5: when a category of any of the four mappings holds None, each of the
\* seven aggregates is computed without an exception and equals its value
\* on the statement in which the None amounts are 0.
C5_NullSafe ==
    AnyNone(statement) =>
        LET a == Aggregates(statement)
        IN /\ \A i \in 1..7 : ~a[i].raised
           /\ a = Aggregates(ZeroNullsStatement(statement))

\* a passive income category holds None next to a non-zero amount
C5_Witness ==
    LET incomes == statement.income_statement.incomes
    IN /\ DictHas(incomes, "interest_dividends")
       /\ DictItem(incomes, "interest_dividends") = None
       /\ FS_total_income(statement).value # 0
       /\ HasNone(statement.balance_sheet.liabilities)

\* the aggregate IncomeStatement holding the CLI statement's incomes and
\* expenses
SameContents(cli) ==
    [NewIncomeStatement EXCEPT !.incomes = cli.incomes,
                               !.expenses = cli.expenses]

\* C6: for the same incomes and expenses, None amounts included, the CLI
\* cash_flow() does not fail and returns what the aggregate cash_flow
\* returns.
C6_SameCashFlow ==
    /\ ~Cli_cash_flow(fs).raised
    /\ Cli_cash_flow(fs) = cash_flow(SameContents(fs))

\* C7: after set_children(n) the child-expense category is present and
\* holds exactly CHILD_EXPENSE * n, whatever it held before the call; after
\* set_children(0) it holds 0.
C7_SetChildren ==
    last_call.op = "set_children" =>
        /\ ~last_call.raised
        /\ DictHas(fs.expenses, CHILD_KEY)
        /\ DictItem(fs.expenses, CHILD_KEY)
              = Num(CHILD_EXPENSE * last_call.amount[1])
        /\ (last_call.amount = Num(0)
              => DictItem(fs.expenses, CHILD_KEY) = Num(0))

\* set_children(2) after the category was removed and another expense
\* added: the category was created anew, behind the other one
C7_Witness ==
    /\ last_call.op = "set_children"
    /\ last_call.amount = Num(2)
    /\ Len(fs.expenses) = 2
    /\ DictIndex(fs.expenses, CHILD_KEY) = 2

EditOrRemoveAbsent(call, self) ==
    \/ /\ call.op \in {"edit_income", "remove_income"}
       /\ ~DictHas(self.incomes, call.name)
    \/ /\ call.op \in {"edit_expense", "remove_expense"}
       /\ ~DictHas(self.expenses, call.name)

\* C8: edit_income, edit_expense, remove_income and remove_expense on a
\* category absent from the mapping leave the whole statement unchanged
\* and do not raise.
C8_AbsentIsNoOp ==
    [][(calls' = calls + 1 /\ EditOrRemoveAbsent(last_call', fs))
          => (fs' = fs /\ ~last_call'.raised)]_vars

\* an edit of a category that the mapping still does not contain
C8_Witness ==
    /\ last_call.op = "edit_income"
    /\ last_call.amount # None
    /\ ~DictHas(fs.incomes, last_call.name)
    /\ ~last_call.raised

\* C9: before any mutation every aggregate is 0, and in every state the
\* total of an empty mapping is 0.
C9_EmptyIsZero ==
    /\ calls = 0 =>
          /\ FS_total_income(statement) = Ok(0)
          /\ FS_total_expenses(statement) = Ok(0)
          /\ FS_cash_flow(statement) = Ok(0)
          /\ FS_total_assets(statement) = Ok(0)
          /\ FS_total_liabilities(statement) = Ok(0)
          /\ FS_net_worth(statement) = Ok(0)
    /\ statement.income_statement.incomes = EmptyDict
          => FS_total_income(statement) = Ok(0)
    /\ statement.income_statement.expenses = EmptyDict
          => FS_total_expenses(statement) = Ok(0)
    /\ statement.balance_sheet.assets = EmptyDict
          => FS_total_assets(statement) = Ok(0)
    /\ statement.balance_sheet.liabilities = EmptyDict
          => FS_total_liabilities(statement) = Ok(0)

C9_Witness ==
    /\ calls = 0
    /\ statement.income_statement.incomes = EmptyDict
    /\ statement.income_statement.expenses = EmptyDict
    /\ statement.balance_sheet.assets = EmptyDict
    /\ statement.balance_sheet.liabilities = EmptyDict
    /\ FS_net_worth(statement) = Ok(0)

AggregateEmpty ==
    /\ statement.income_statement.incomes = EmptyDict
    /\ statement.income_statement.expenses = EmptyDict
    /\ statement.balance_sheet.assets = EmptyDict
    /\ statement.balance_sheet.liabilities = EmptyDict

\* C10 as stated: in the initial state of either variant all four category
\* mappings contain no category.
C10_CreatedEmpty ==
    calls = 0 =>
        /\ AggregateEmpty
        /\ fs.incomes = EmptyDict
        /\ fs.expenses = EmptyDict
        /\ fs.assets = EmptyDict
        /\ fs.liabilities = EmptyDict

\* C10 amended: in the initial state all mappings of the aggregate variant
\* are empty, and so are the incomes, assets and liabilities of the CLI
\* variant; the CLI expenses hold exactly the child-expense category, with
\* amount 0.
C10_CreatedEmptyButChildExpense ==
    calls = 0 =>
        /\ AggregateEmpty
        /\ fs.incomes = EmptyDict
        /\ fs.expenses = <<<<CHILD_KEY, Num(0)>>>>
        /\ fs.assets = EmptyDict
        /\ fs.liabilities = EmptyDict
        /\ fs.children = 0

C10_Witness ==
    /\ calls = 0
    /\ last_call.op = "__init__"
    /\ AggregateEmpty
    /\ DictKeys(fs.expenses) = {CHILD_KEY}
\* the keys whose entry differs between the dicts d and e
ChangedKeys(d, e) ==
    {k \in DictKeys(d) \cup DictKeys(e) :
        \/ DictHas(d, k) # DictHas(e, k)
        \/ DictHas(d, k) /\ DictHas(e, k) /\ DictItem(d, k) # DictItem(e, k)}

\* e is d with at most one entry written: no other entry changed, none
\* removed, and the entries kept their order
OneEntryWritten(d, e) ==
    /\ Cardinality(ChangedKeys(d, e)) <= 1
    /\ DictKeys(d) \subseteq DictKeys(e)
    /\ \A i \in 1..Len(d) : e[i][1] = d[i][1]

\* C12: an update_income step changes at most one entry of incomes and
\* leaves expenses, assets and liabilities (hence total_expenses,
\* total_assets, total_liabilities and net_worth) as they were, and
\* symmetrically for update_expense, update_asset and update_liability.
C12_Frame ==
    [][LET is == statement.income_statement
           bs == statement.balance_sheet
           is2 == statement'.income_statement
           bs2 == statement'.balance_sheet
       IN /\ UpdateIncome =>
               /\ OneEntryWritten(is.incomes, is2.incomes)
               /\ is2.expenses = is.expenses /\ bs2 = bs
               /\ FS_total_expenses(statement') = FS_total_expenses(statement)
               /\ FS_total_assets(statement') = FS_total_assets(statement)
               /\ FS_total_liabilities(statement') = FS_total_liabilities(statement)
               /\ FS_net_worth(statement') = FS_net_worth(statement)
          /\ UpdateExpense =>
               /\ OneEntryWritten(is.expenses, is2.expenses)
               /\ is2.incomes = is.incomes /\ bs2 = bs
               /\ FS_total_income(statement') = FS_total_income(statement)
               /\ FS_net_worth(statement') = FS_net_worth(statement)
          /\ UpdateAsset =>
               /\ OneEntryWritten(bs.assets, bs2.assets)
               /\ bs2.liabilities = bs.liabilities /\ is2 = is
               /\ FS_total_liabilities(statement') = FS_total_liabilities(statement)
               /\ FS_cash_flow(statement') = FS_cash_flow(statement)
          /\ UpdateLiability =>
               /\ OneEntryWritten(bs.liabilities, bs2.liabilities)
               /\ bs2.assets = bs.assets /\ is2 = is
               /\ FS_total_assets(statement') = FS_total_assets(statement)
               /\ FS_cash_flow(statement') = FS_cash_flow(statement)]_vars

\* 'mortgage' is both an expense and a liability, with different amounts
C12_Witness ==
    LET expenses == statement.income_statement.expenses
        liabilities == statement.balance_sheet.liabilities
    IN /\ DictHas(expenses, "mortgage")
       /\ DictHas(liabilities, "mortgage")
       /\ DictItem(expenses, "mortgage") = Num(1)
       /\ DictItem(liabilities, "mortgage") = Num(-1)
       /\ statement.income_statement.incomes # EmptyDict

\* C14: in every state reached by the CLI statement's methods the
\* child-expense category is present in expenses and holds
\* CHILD_EXPENSE * children.
C14_ChildExpenseDerived ==
    /\ DictHas(fs.expenses, CHILD_KEY)
    /\ DictItem(fs.expenses, CHILD_KEY) = Num(fs.CHILD_EXPENSE * fs.children)
\* the mapping of a statement that a ledger of the form addresses
LedgerDict(st, ledger) ==
    CASE ledger = "income" -> st.income_statement.incomes
      [] ledger = "expense" -> st.income_statement.expenses
      [] ledger = "asset" -> st.balance_sheet.assets
      [] ledger = "liability" -> st.balance_sheet.liabilities

Ledgers == {"income", "expense", "asset", "liability"}

\* a text that is empty or not a number, a decimal comma allowed
NonNumeric(text) == PyFloatText(StrReplace(text, ",", ".")).raised

\* the entry of d for k is present and holds 0
HoldsZero(d, k) == DictHas(d, k) /\ DictItem(d, k) = Num(0)

\* C11: after either shell has read an empty or non-numeric amount text,
\* the program is still running and the model entry the amount was for
\* holds 0 (for an edit in the menu: if the category exists).
C11_InvalidTextIsZero ==
    NonNumeric(last_input.text) =>
        /\ last_input.shell = "form" =>
              HoldsZero(LedgerDict(statement, last_input.op), last_input.key)
        /\ (last_input.shell = "menu"
              /\ last_input.op \in {"1", "2", "4", "5", "7"}) =>
              /\ session = "running"
              /\ last_input.op = "1" => HoldsZero(fs.incomes, last_input.key)
              /\ last_input.op = "2" =>
                    (DictHas(fs.incomes, last_input.key)
                        => HoldsZero(fs.incomes, last_input.key))
              /\ last_input.op = "4" => HoldsZero(fs.expenses, last_input.key)
              /\ last_input.op = "5" =>
                    (DictHas(fs.expenses, last_input.key)
                        => HoldsZero(fs.expenses, last_input.key))
              /\ last_input.op = "7" =>
                    fs.children = 0 /\ HoldsZero(fs.expenses, CHILD_KEY)

\* the seven labels show the formatted current aggregates
LabelsCurrent ==
    /\ labels.total_income = fmt(FS_total_income(statement).value)
    /\ labels.passive_income = fmt(FS_passive_income(statement).value)
    /\ labels.total_expenses = fmt(FS_total_expenses(statement).value)
    /\ labels.cash_flow = fmt(FS_cash_flow(statement).value)
    /\ labels.total_assets = fmt(FS_total_assets(statement).value)
    /\ labels.total_liabilities = fmt(FS_total_liabilities(statement).value)
    /\ labels.net_worth = fmt(FS_net_worth(statement).value)

\* the step wrote the parsed text of the edited field into the entry of
\* its ledger and category, and nothing else of the statement
OneMutation ==
    LET ledger == last_input'.op
        key == last_input'.key
    IN /\ \A other \in Ledgers \ {ledger} :
             LedgerDict(statement', other) = LedgerDict(statement, other)
       /\ OneEntryWritten(LedgerDict(statement, ledger),
                          LedgerDict(statement', ledger))
       /\ ChangedKeys(LedgerDict(statement, ledger),
                      LedgerDict(statement', ledger)) \subseteq {key}
       /\ DictHas(LedgerDict(statement', ledger), key)
       /\ DictItem(LedgerDict(statement', ledger), key)
             = Num(_parse_value(last_input'.text))

\* C13: after construction and after every field edit of the form each of
\* the seven labels shows the current aggregate of the model, and every
\* field edit makes exactly one mutation, of the edited field's ledger and
\* category.
C13_SummaryCurrent ==
    /\ []LabelsCurrent
    /\ [][calls' = calls + 1 => OneMutation]_vars

\* three edits: a negative income with a decimal comma, an expense and a
\* liability of 1000
C13_Witness ==
    /\ last_input.shell = "form"
    /\ calls = 3
    /\ labels.total_income = <<"-", "1", ",", "5", "0">>
    /\ labels.cash_flow = <<"-", "1", " ", "0", "0", "1", ",", "5", "0">>
    /\ labels.net_worth = <<"-", "1", " ", "0", "0", "0", ",", "0", "0">>
    /\ labels.total_assets = <<"0", ",", "0", "0">>
====
